---- MODULE Spec2Model ----
(***************************************************************************)
(* Model of the traversal engines of nakanishi8/recursive-test:            *)
(*   - the link-based crawler  (src/directory_crawler.py, and its Selenium *)
(*     twin src/directory_crawler_selenium.py, whose crawl_url has the      *)
(*     same control flow);                                                 *)
(*   - the click-based crawler (src/tree_crawler_selenium.py).             *)
(* SpecLink is the link-based crawler, SpecTree the click-based one.  The  *)
(* statistics counters, max_depth, the items log and the driver's phase    *)
(* exist under the same names in both classes and are shared here; each    *)
(* specification leaves the other crawler's own variables untouched.       *)
(***************************************************************************)
EXTENDS Integers, Sequences, FiniteSets, TLC

VARIABLES
    \* ---- shared by both crawler classes
    max_depth,      \* self.max_depth
    dirs_found,     \* self.dirs_found
    files_found,    \* self.files_found
    errors_count,   \* self.errors_count
    events,         \* the items log: one record per DIRECTORY:/FILE: line
    phase,          \* the top-level driver: "ready", "crawling", "done"
    \* ---- link-based crawler
    visited_urls,   \* self.visited_urls
    stack,          \* call frames of crawl_url, innermost last
    fetched,        \* history: the URLs passed to session.get, in order
    served,         \* history: the page each URL answered with
    failed,         \* history: the URLs whose fetch raised
    passed,         \* history: the calls crawl_url(directories[n].url, depth) made by frames
    \* ---- click-based crawler
    warning_count,  \* self.warning_count
    configured,     \* the program run, the root URL and the maximum depth the user
                    \* asked for, and where (constructor, --max-depth)
    remote,         \* the remote hierarchy: level path -> the level's content rows
    view,           \* the widget: the level displayed and the transition under way
    tstack,         \* call frames of crawl_tree, innermost last
    attempt,        \* wait_for_tree's loop variable while start waits for the tree
    faults,         \* number of misbehaviours of the remote widget so far
    waits,          \* history: a summary of every finished wait_for_click_tree
    abandoned,      \* history: frames an exception unwound, with the rows they had left
    short,          \* the rows the widget renders with fewer than three cells
    \* ---- what a run leaves behind
    summary,        \* the statistics the driver logs at its end
    search_results, \* self.search_results of the click-based crawler
    export,         \* extract_search_words.xlsx as write_to_xlsx wrote it
    \* ---- what a run is given and never changes
    site,               \* the anchors the pages of the remote site are made of
    search_nec_words,   \* search_nec_words.txt, read when search_word is imported
    search_words,       \* search_words.txt
    exclusion_words     \* exclusion_words.txt

linkvars == <<visited_urls, stack, fetched, served, failed, passed>>
treevars == <<warning_count, configured, remote, view, tstack, attempt, faults,
              waits, abandoned>>
sharedvars == <<max_depth, dirs_found, files_found, errors_count, events, phase>>
outvars == <<short, summary, search_results, export>>
inputvars == <<site, search_nec_words, search_words, exclusion_words>>
vars == <<sharedvars, linkvars, treevars, outvars, inputvars>>

----------------------------------------------------------------------------
(* Bounds of the model.                                                    *)

\* most anchors on one page
MaxLinks == 2
\* largest max_depth a run is configured with
MaxDepth == 3

----------------------------------------------------------------------------
(* Generic helpers.                                                        *)

BoundedSeq(S, n) == UNION {[1..k -> S] : k \in 0..n}

\* nothing is logged, matched or written before the driver runs
NoSummary == [written |-> FALSE]
NoExport == [written |-> FALSE]

OutIdle ==
    /\ short = {}
    /\ summary = NoSummary
    /\ search_results = <<>>
    /\ export = NoExport

\* start_crawling, lines 219-230: the summary of the link-based crawlers;
\* how tells what ended the crawl
LinkSummary(how) ==
    [written |-> TRUE, how |-> how, visited |-> Cardinality(visited_urls),
     dirs |-> dirs_found, files |-> files_found, errors |-> errors_count]

\* start, lines 280-286: the summary of the click-based crawler
TreeSummary(how) ==
    [written |-> TRUE, how |-> how,
     dirs |-> dirs_found, files |-> files_found, errors |-> errors_count]

\* the link-based crawlers do not import search_word
NoWords ==
    /\ search_nec_words = <<>>
    /\ search_words = <<>>
    /\ exclusion_words = <<>>

IsPrefix(p, q) == Len(p) <= Len(q) /\ SubSeq(q, 1, Len(p)) = p

IsStrictPrefix(p, q) == Len(p) < Len(q) /\ SubSeq(q, 1, Len(p)) = p

Top(s) == s[Len(s)]

Pop(s) == SubSeq(s, 1, Len(s) - 1)

SetTop(s, f) == [s EXCEPT ![Len(s)] = f]

----------------------------------------------------------------------------
(* src/search_word.py.  A text is a sequence of characters; a character is *)
(* a record of its base b and its form f: "l" and "u" are the ASCII lower  *)
(* and upper case letter, "fl" and "fu" the fullwidth ones, "k" a kanji    *)
(* (alphabetic, without case) and "x" a digit or a symbol.                 *)

Ch(b, f) == [b |-> b, f |-> f]
Lower(s) == [i \in DOMAIN s |-> Ch(s[i], "l")]
Upper(s) == [i \in DOMAIN s |-> Ch(s[i], "u")]
Wide(s) == [i \in DOMAIN s |-> Ch(s[i], "fu")]
Kanji(s) == [i \in DOMAIN s |-> Ch(s[i], "k")]
Sym(b) == <<Ch(b, "x")>>

\* str.isalpha of one character
isalpha(ch) == ch.f # "x"

\* generate_regex, line 73: [lower upper chr(lower + 0xFEE0) chr(upper + 0xFEE0)];
\* for a fullwidth or a kanji character the two shifted code points are
\* outside the alphabet of the texts
RegexClass(ch) ==
    IF ch.f \in {"l", "u"}
    THEN {Ch(ch.b, "l"), Ch(ch.b, "u"), Ch(ch.b, "fl"), Ch(ch.b, "fu")}
    ELSE IF ch.f \in {"fl", "fu"} THEN {Ch(ch.b, "fl"), Ch(ch.b, "fu")}
    ELSE {ch}

\* generate_regex: a regular expression is the sequence of its character classes
generate_regex(word) ==
    LET alpha == SelectSeq(word, isalpha)
    IN  [i \in 1..Len(alpha) |-> RegexClass(alpha[i])]

\* the regular expression of a literal word under re.IGNORECASE
IgnoreCase(word) ==
    [i \in 1..Len(word) |->
        IF word[i].f \in {"l", "u"} THEN {Ch(word[i].b, "l"), Ch(word[i].b, "u")}
        ELSE IF word[i].f \in {"fl", "fu"} THEN {Ch(word[i].b, "fl"), Ch(word[i].b, "fu")}
        ELSE {word[i]}]

\* the expression matches the text from position p on
MatchAt(regex, text, p) ==
    /\ p + Len(regex) - 1 <= Len(text)
    /\ \A i \in 1..Len(regex) : text[p + i - 1] \in regex[i]

\* re.finditer: the start positions of the matches (the empty expression
\* matches at every position)
Matches(regex, text) == {p \in 1..(Len(text) + 1) : MatchAt(regex, text, p)}

re_search(regex, text) == Matches(regex, text) # {}

\* the regular expression of a literal word
Literal(word) == [i \in 1..Len(word) |-> {word[i]}]

\* re.search of  head.*?tail
GapSearch(head, tail, text) ==
    \E p \in Matches(head, text), q \in Matches(tail, text) : q >= p + Len(head)

\* word in text, for two str
IsSubstring(word, text) ==
    \E p \in 1..(Len(text) - Len(word) + 1) : SubSeq(text, p, p + Len(word) - 1) = word

\* the words lines 108-199 compare with
NEC == Upper(<<"n", "e", "c">>)
Nippon == Lower(<<"n", "i", "p", "p", "o", "n">>)
Denki == Lower(<<"d", "e", "n", "k", "i">>)
Electric == Lower(<<"e", "l", "e", "c", "t", "r", "i", "c">>)
Nichiden == Kanji(<<"nichi", "den">>)

\* False, as include_search_word and include_nec_search_word return it
NoWord == <<>>

\* include_search_word, lines 89-98: the first word of search_words found in
\* the file name
RECURSIVE include_search_word_from(_, _)
include_search_word_from(k, filename) ==
    IF k > Len(search_words) THEN NoWord
    ELSE IF re_search(IgnoreCase(search_words[k]), filename) THEN search_words[k]
    ELSE include_search_word_from(k + 1, filename)

include_search_word(filename) == include_search_word_from(1, filename)

\* include_nec_search_word, line 113: an exclusion word is looked for in the
\* matched text m.group()
Excluded(matched_text) ==
    \E n \in DOMAIN exclusion_words :
        re_search(generate_regex(exclusion_words[n]), matched_text)

\* include_nec_search_word, lines 101-200, from the k-th word on.  Of the
\* branches of lines 120-199 the model has nippondenki, nipponelectric and
\* the kanji word of lines 180-184; the other kana and kanji branches have
\* the shape of these.
RECURSIVE include_nec_search_word_from(_, _)
include_nec_search_word_from(k, line) ==
    IF k > Len(search_nec_words) THEN NoWord
    ELSE LET word == search_nec_words[k]
             next == include_nec_search_word_from(k + 1, line)
             regex == generate_regex(word)
         IN  IF word = NEC
             THEN IF Matches(regex, line) = {} THEN next
                  ELSE IF \E p \in Matches(regex, line) :
                             ~Excluded(SubSeq(line, p, p + Len(regex) - 1))
                       THEN word
                       ELSE NoWord
             ELSE IF IsSubstring(word, Nippon \o Denki)
             THEN IF GapSearch(generate_regex(Nippon), generate_regex(Denki), line)
                  THEN word ELSE next
             ELSE IF IsSubstring(word, Nippon \o Electric)
             THEN next
             ELSE IF IsSubstring(word, Nichiden)
             THEN IF re_search(Literal(Nichiden), line) THEN word ELSE next
             ELSE next

include_nec_search_word(line) == include_nec_search_word_from(1, line)

\* one entry of search_results
Result(word, dir_path, file_name) ==
    [SearchWord |-> word, Directory |-> dir_path, FileName |-> file_name]

\* is_include_search_word, lines 11-36: search_results after the call
is_include_search_word(dir_path, file_name, results) ==
    LET nec_word == include_nec_search_word(dir_path \o Sym("/") \o file_name)
        word == include_search_word(file_name)
    IN  IF nec_word # NoWord THEN Append(results, Result(nec_word, dir_path, file_name))
        ELSE IF word # NoWord THEN Append(results, Result(word, dir_path, file_name))
        ELSE results

\* line 82
merged_words == search_nec_words \o search_words

\* dict.fromkeys(words, 0), line 228: the keys in the order of their first
\* occurrence
RECURSIVE fromkeys(_)
fromkeys(words) ==
    IF words = <<>> THEN <<>>
    ELSE LET init == fromkeys(SubSeq(words, 1, Len(words) - 1))
             last == words[Len(words)]
         IN  IF \E i \in DOMAIN init : init[i].word = last
             THEN init
             ELSE Append(init, [word |-> last, count |-> 0])

\* mutant: a keyword is counted once, however many results carry it
IncrementOnce(counts, word) ==
    [i \in DOMAIN counts |->
        IF counts[i].word = word THEN [counts[i] EXCEPT !.count = 1] ELSE counts[i]]

\* line 230: word_counts[result["SearchWord"]] += 1
Increment(counts, word) ==
    [i \in DOMAIN counts |->
        IF counts[i].word = word THEN [counts[i] EXCEPT !.count = @ + 1] ELSE counts[i]]

\* lines 228-230
RECURSIVE word_counts(_)
word_counts(results) ==
    IF results = <<>> THEN fromkeys(merged_words)
    ELSE Increment(word_counts(SubSeq(results, 1, Len(results) - 1)),
                   results[Len(results)].SearchWord)

\* write_to_xlsx, lines 203-243: the workbook saved; line 230 raises KeyError
\* for a result whose SearchWord is no key, and nothing is saved
write_to_xlsx(results) ==
    IF \E i \in DOMAIN results :
          \A k \in DOMAIN merged_words : merged_words[k] # results[i].SearchWord
    THEN NoExport
    ELSE [written |-> TRUE, rows |-> results, counts |-> word_counts(results)]

\* ---- the matching functions applied to bounded inputs

\* most entries of search_results
MaxResults == 2

Report == Lower(<<"r", "e", "p", "o", "r", "t">>)
Plan == Lower(<<"p", "l", "a", "n">>)
Connect == Lower(<<"c", "o", "n", "n", "e", "c", "t">>)

\* the contents of search_nec_words.txt, search_words.txt, exclusion_words.txt
NecLists == {<<NEC>>, <<NEC, Nichiden>>, <<Nippon \o Electric>>, <<Nippon \o Denki, NEC>>}
WordLists == {<<Report>>, <<Plan, Report>>, <<Report, NEC>>}
ExclusionLists == {<<>>, <<Connect>>, <<Lower(<<"e", "c">>)>>}

\* the directory paths and file names looked at
DirPaths == {<<>>, Lower(<<"n", "e", "c">>)}
FileNames ==
    {Report,
     Sym("1"),
     Lower(<<"n", "e", "c">>) \o Sym("_") \o Report,
     Wide(<<"n", "e", "c">>),
     Connect \o Sym("_") \o Report,
     Connect \o Sym("_") \o NEC \o Sym("_") \o Plan,
     Nippon \o Electric \o Sym("_") \o Report,
     Nippon \o Sym("_") \o Denki,
     NEC \o Nichiden \o Report}

\* search_word's globals are set at import; the caller's list is empty
SearchImported ==
    /\ search_nec_words \in NecLists
    /\ search_words \in WordLists
    /\ exclusion_words \in ExclusionLists
    /\ search_results = <<>>
    /\ export = NoExport
    /\ phase = "search"

\* a caller passes one file to is_include_search_word
ScanFile ==
    /\ phase = "search"
    /\ Len(search_results) < MaxResults
    /\ \E dir_path \in DirPaths, file_name \in FileNames :
          search_results' = is_include_search_word(dir_path, file_name, search_results)
    /\ UNCHANGED <<export, phase>>
    /\ UNCHANGED <<max_depth, dirs_found, files_found, errors_count, events>>
    /\ UNCHANGED <<linkvars, treevars, short, summary, inputvars>>

\* the caller passes its list to write_to_xlsx
WriteXlsx ==
    /\ phase = "search"
    /\ export' = write_to_xlsx(search_results)
    /\ phase' = "done"
    /\ UNCHANGED search_results
    /\ UNCHANGED <<max_depth, dirs_found, files_found, errors_count, events>>
    /\ UNCHANGED <<linkvars, treevars, short, summary, inputvars>>

----------------------------------------------------------------------------
(* The remote source of the link-based crawler.  A page is the sequence of *)
(* its <a href> anchors.  An anchor is given by the location it resolves   *)
(* to (urljoin), that location's authority, and whether the href ends with *)
(* "/".  Because a location is fetched at most once, the page a location   *)
(* answers with is chosen when it is fetched.                              *)

Root == "r"

OwnNetloc == "own"

Anchors ==
    { [url |-> "a", netloc |-> "own", slash |-> TRUE],
      [url |-> "b", netloc |-> "own", slash |-> TRUE],
      [url |-> "f", netloc |-> "own", slash |-> FALSE] }

\* a site whose pages also link to another authority
ForeignAnchors ==
    { [url |-> "a", netloc |-> "own", slash |-> TRUE],
      [url |-> "f", netloc |-> "own", slash |-> FALSE],
      [url |-> "x", netloc |-> "other", slash |-> TRUE],
      [url |-> "y", netloc |-> "other", slash |-> FALSE] }

\* a site of three directories and a file
DeepAnchors ==
    { [url |-> "a", netloc |-> "own", slash |-> TRUE],
      [url |-> "b", netloc |-> "own", slash |-> TRUE],
      [url |-> "c", netloc |-> "own", slash |-> TRUE],
      [url |-> "f", netloc |-> "own", slash |-> FALSE] }

\* href.endswith("/"), extract_links line 128; an href is the sequence of
\* its characters
href_endswith_slash(href) == href # <<>> /\ href[Len(href)] = "/"

\* an anchor of the root's authority given by its href
HrefAnchor(url, href) ==
    [url |-> url, netloc |-> "own", slash |-> href_endswith_slash(href), href |-> href]

\* a site whose hrefs carry a query string or a fragment
HrefAnchors ==
    { HrefAnchor("a", <<"a", "/">>),
      HrefAnchor("f", <<"f">>),
      HrefAnchor("q", <<"q", "/", "?", "s">>),
      HrefAnchor("g", <<"g", "#", "x", "/">>) }

AllAnchors == Anchors \cup ForeignAnchors \cup DeepAnchors \cup HrefAnchors

Urls == {Root} \cup {a.url : a \in AllAnchors}

\* urlparse(url).netloc
NetlocOf(url) ==
    IF url = Root THEN OwnNetloc
    ELSE (CHOOSE a \in AllAnchors : a.url = url).netloc

\* the pages the site can answer with
Pages == BoundedSeq(site, MaxLinks)

\* no answer recorded yet
NoPage == [got |-> FALSE, page |-> <<>>]

----------------------------------------------------------------------------
(* DirectoryCrawler.                                                       *)

\* mutant: every anchor is valid
is_valid_link_any(anchor) == TRUE

\* is_valid_link: the resolved authority equals the base URL's (every page
\* the crawler fetches is on the root's authority).
is_valid_link(anchor) == anchor.netloc = OwnNetloc

\* mutant: the directory list takes every valid anchor
extract_links_no_split(page) ==
    [directories |-> SelectSeq(page, LAMBDA a : is_valid_link(a)),
     files       |-> SelectSeq(page, LAMBDA a : is_valid_link(a) /\ ~a.slash)]

\* extract_links: the valid anchors, split by href.endswith("/"), page order kept
extract_links(page) ==
    [directories |-> SelectSeq(page, LAMBDA a : is_valid_link(a) /\ a.slash),
     files       |-> SelectSeq(page, LAMBDA a : is_valid_link(a) /\ ~a.slash)]

\* mutant: the depth test written with > instead of >=
DepthReachedOffByOne(current_depth) == current_depth > max_depth

\* crawl_url, line 144: current_depth >= self.max_depth
DepthReached(current_depth) == current_depth >= max_depth

\* mutant: the visited test never answers yes
NeverVisited(url) == FALSE

\* crawl_url, line 149: url in self.visited_urls
AlreadyVisited(url) == url \in visited_urls

\* a fresh crawl_url frame.  id is the chain of directory indices leading
\* from the root call to this call; i, k count the DIRECTORY and FILE lines
\* logged, j the directories passed to the recursive call.
Frame(url, depth, id) ==
    [url |-> url, depth |-> depth, id |-> id, pc |-> "enter",
     directories |-> <<>>, files |-> <<>>, i |-> 0, k |-> 0, j |-> 0]

\* one line of items.log, with the frame that wrote it: by is the page the
\* frame crawls, depth its current_depth, frame its id, idx the place of the
\* link among the page's directories (or files)
Event(kind, url, f, idx) ==
    [kind |-> kind, url |-> url, by |-> f.url, depth |-> f.depth,
     frame |-> f.id, idx |-> idx]

\* start_crawling: self.crawl_url(base_url)
StartCrawling ==
    /\ phase = "ready" /\ configured.prog = "link"
    /\ phase' = "crawling"
    /\ stack' = <<Frame(Root, 0, <<>>)>>
    /\ UNCHANGED <<max_depth, dirs_found, files_found, errors_count, events>>
    /\ UNCHANGED <<visited_urls, fetched, served, failed, passed>>
    /\ UNCHANGED treevars
    /\ UNCHANGED outvars
    /\ UNCHANGED inputvars

\* crawl_url, lines 144-146: the depth limit is reached, return
CrawlMaxDepth ==
    /\ phase = "crawling" /\ stack # <<>>
    /\ Top(stack).pc = "enter"
    /\ DepthReached(Top(stack).depth)
    /\ stack' = Pop(stack)
    /\ UNCHANGED <<sharedvars, visited_urls, fetched, served, failed, passed>>
    /\ UNCHANGED treevars
    /\ UNCHANGED outvars
    /\ UNCHANGED inputvars

\* crawl_url, lines 149-150: already visited, return
CrawlVisited ==
    /\ phase = "crawling" /\ stack # <<>>
    /\ Top(stack).pc = "enter"
    /\ ~DepthReached(Top(stack).depth)
    /\ AlreadyVisited(Top(stack).url)
    /\ stack' = Pop(stack)
    /\ UNCHANGED <<sharedvars, visited_urls, fetched, served, failed, passed>>
    /\ UNCHANGED treevars
    /\ UNCHANGED outvars
    /\ UNCHANGED inputvars

\* crawl_url, line 152: self.visited_urls.add(url), then the request is sent
CrawlVisit ==
    /\ phase = "crawling" /\ stack # <<>>
    /\ Top(stack).pc = "enter"
    /\ ~DepthReached(Top(stack).depth)
    /\ ~AlreadyVisited(Top(stack).url)
    /\ visited_urls' = visited_urls \cup {Top(stack).url}
    /\ stack' = SetTop(stack, [Top(stack) EXCEPT !.pc = "fetch"])
    /\ UNCHANGED <<sharedvars, fetched, served, failed, passed>>
    /\ UNCHANGED treevars
    /\ UNCHANGED outvars
    /\ UNCHANGED inputvars

\* crawl_url, lines 158-162: the request succeeds and the links are extracted
FetchOk ==
    /\ phase = "crawling" /\ stack # <<>>
    /\ Top(stack).pc = "fetch"
    /\ \E page \in Pages :
        LET f == Top(stack)
            links == extract_links(page)
        IN  /\ fetched' = Append(fetched, f.url)
            /\ served' = [served EXCEPT ![f.url] = [got |-> TRUE, page |-> page]]
            /\ stack' = SetTop(stack, [f EXCEPT !.pc = "run",
                                                !.directories = links.directories,
                                                !.files = links.files])
    /\ UNCHANGED <<sharedvars, visited_urls, failed, passed>>
    /\ UNCHANGED treevars
    /\ UNCHANGED outvars
    /\ UNCHANGED inputvars

\* mutant: the exception is caught one frame too high, by the caller's
\* except clause, which ends the caller as well
FetchFailPropagates ==
    /\ phase = "crawling" /\ stack # <<>>
    /\ Top(stack).pc = "fetch"
    /\ fetched' = Append(fetched, Top(stack).url)
    /\ failed' = failed \cup {Top(stack).url}
    /\ errors_count' = errors_count + 1
    /\ stack' = Pop(Pop(stack))
    /\ UNCHANGED <<max_depth, dirs_found, files_found, events, phase>>
    /\ UNCHANGED <<visited_urls, served, passed>>
    /\ UNCHANGED treevars
    /\ UNCHANGED outvars
    /\ UNCHANGED inputvars

\* crawl_url, lines 158-159 and 188-193: the request (or the parse) raises;
\* the frame's own except clause counts it and the frame returns
FetchFail ==
    /\ phase = "crawling" /\ stack # <<>>
    /\ Top(stack).pc = "fetch"
    /\ fetched' = Append(fetched, Top(stack).url)
    /\ failed' = failed \cup {Top(stack).url}
    /\ errors_count' = errors_count + 1
    /\ stack' = Pop(stack)
    /\ UNCHANGED <<max_depth, dirs_found, files_found, events, phase>>
    /\ UNCHANGED <<visited_urls, served, passed>>
    /\ UNCHANGED treevars
    /\ UNCHANGED outvars
    /\ UNCHANGED inputvars

\* mutant: the DIRECTORY line is written and dirs_found left as it was
LogDirectoryUncounted ==
    /\ phase = "crawling" /\ stack # <<>>
    /\ LET f == Top(stack) IN
        /\ f.pc = "run"
        /\ f.i < Len(f.directories)
        /\ events' = Append(events, Event("DIRECTORY", f.directories[f.i + 1].url, f, f.i + 1))
        /\ stack' = SetTop(stack, [f EXCEPT !.i = f.i + 1])
    /\ UNCHANGED <<max_depth, dirs_found, files_found, errors_count, phase>>
    /\ UNCHANGED <<visited_urls, fetched, served, failed, passed>>
    /\ UNCHANGED treevars
    /\ UNCHANGED outvars
    /\ UNCHANGED inputvars

\* crawl_url, lines 165-170: one DIRECTORY line and its counter
LogDirectory ==
    /\ phase = "crawling" /\ stack # <<>>
    /\ LET f == Top(stack) IN
        /\ f.pc = "run"
        /\ f.i < Len(f.directories)
        /\ events' = Append(events, Event("DIRECTORY", f.directories[f.i + 1].url, f, f.i + 1))
        /\ dirs_found' = dirs_found + 1
        /\ stack' = SetTop(stack, [f EXCEPT !.i = f.i + 1])
    /\ UNCHANGED <<max_depth, files_found, errors_count, phase>>
    /\ UNCHANGED <<visited_urls, fetched, served, failed, passed>>
    /\ UNCHANGED treevars
    /\ UNCHANGED outvars
    /\ UNCHANGED inputvars

\* crawl_url, lines 173-178: one FILE line and its counter
LogFile ==
    /\ phase = "crawling" /\ stack # <<>>
    /\ LET f == Top(stack) IN
        /\ f.pc = "run"
        /\ f.i = Len(f.directories)
        /\ f.k < Len(f.files)
        /\ events' = Append(events, Event("FILE", f.files[f.k + 1].url, f, f.k + 1))
        /\ files_found' = files_found + 1
        /\ stack' = SetTop(stack, [f EXCEPT !.k = f.k + 1])
    /\ UNCHANGED <<max_depth, dirs_found, errors_count, phase>>
    /\ UNCHANGED <<visited_urls, fetched, served, failed, passed>>
    /\ UNCHANGED treevars
    /\ UNCHANGED outvars
    /\ UNCHANGED inputvars

\* mutant: the recursion loop walks the directories last to first
RecurseReversed(directories, j) == Len(directories) + 1 - j

\* crawl_url, line 181: the directory the j-th turn of the loop recurses into
RecurseOrder(directories, j) == j

\* mutant: the recursion loop does not move on to the next directory
RecurseSameChild ==
    /\ phase = "crawling" /\ stack # <<>>
    /\ LET f == Top(stack) IN
        /\ f.pc = "run"
        /\ f.i = Len(f.directories)
        /\ f.k = Len(f.files)
        /\ f.j < Len(f.directories)
        /\ LET n == f.j + 1 IN
            /\ stack' = Append(stack, Frame(f.directories[n].url, f.depth + 1, Append(f.id, n)))
            /\ passed' = passed \cup {[from |-> f.id, by |-> f.url, n |-> n,
                                       url |-> f.directories[n].url,
                                       depth |-> f.depth + 1]}
    /\ UNCHANGED <<sharedvars, visited_urls, fetched, served, failed>>
    /\ UNCHANGED treevars
    /\ UNCHANGED outvars
    /\ UNCHANGED inputvars

\* crawl_url, lines 181-186: sleep, then crawl_url(dir_info["url"], current_depth + 1)
Recurse ==
    /\ phase = "crawling" /\ stack # <<>>
    /\ LET f == Top(stack) IN
        /\ f.pc = "run"
        /\ f.i = Len(f.directories)
        /\ f.k = Len(f.files)
        /\ f.j < Len(f.directories)
        /\ LET n == RecurseOrder(f.directories, f.j + 1) IN
            /\ stack' = Append(SetTop(stack, [f EXCEPT !.j = f.j + 1]),
                               Frame(f.directories[n].url, f.depth + 1, Append(f.id, n)))
            /\ passed' = passed \cup {[from |-> f.id, by |-> f.url, n |-> n,
                                       url |-> f.directories[n].url,
                                       depth |-> f.depth + 1]}
    /\ UNCHANGED <<sharedvars, visited_urls, fetched, served, failed>>
    /\ UNCHANGED treevars
    /\ UNCHANGED outvars
    /\ UNCHANGED inputvars

\* crawl_url: the loops are over, the frame returns to its caller
Return ==
    /\ phase = "crawling" /\ stack # <<>>
    /\ LET f == Top(stack) IN
        /\ f.pc = "run"
        /\ f.i = Len(f.directories)
        /\ f.k = Len(f.files)
        /\ f.j = Len(f.directories)
    /\ stack' = Pop(stack)
    /\ UNCHANGED <<sharedvars, visited_urls, fetched, served, failed, passed>>
    /\ UNCHANGED treevars
    /\ UNCHANGED outvars
    /\ UNCHANGED inputvars

\* start_crawling, lines 219-230: crawl_url has returned, the summary is logged
Finish ==
    /\ configured.prog = "link"
    /\ phase = "crawling" /\ stack = <<>>
    /\ phase' = "done"
    /\ summary' = LinkSummary("return")
    /\ UNCHANGED <<max_depth, dirs_found, files_found, errors_count, events>>
    /\ UNCHANGED linkvars
    /\ UNCHANGED treevars
    /\ UNCHANGED <<short, search_results, export>>
    /\ UNCHANGED inputvars

\* KeyboardInterrupt raised inside crawl_url (a fetch, the delay, any depth):
\* no except clause of crawl_url names it (lines 188-193), start_crawling
\* catches it (lines 214-215) and goes on to its summary (lines 219-230)
InterruptLink ==
    /\ phase = "crawling" /\ stack # <<>>
    /\ stack' = <<>>
    /\ phase' = "done"
    /\ summary' = LinkSummary("interrupt")
    /\ UNCHANGED <<max_depth, dirs_found, files_found, errors_count, events>>
    /\ UNCHANGED <<visited_urls, fetched, served, failed, passed>>
    /\ UNCHANGED treevars
    /\ UNCHANGED <<short, search_results, export>>
    /\ UNCHANGED inputvars

\* DirectoryCrawler.__init__ with the --max-depth given to main
InitLinkOn(anchors) ==
    /\ max_depth \in 0..MaxDepth
    /\ dirs_found = 0 /\ files_found = 0 /\ errors_count = 0
    /\ events = <<>>
    /\ phase = "ready"
    /\ visited_urls = {}
    /\ stack = <<>>
    /\ fetched = <<>>
    /\ served = [u \in Urls |-> NoPage]
    /\ failed = {}
    /\ passed = {}
    \* the click-based crawler is not running
    /\ warning_count = 0
    /\ configured = [prog |-> "link", via |-> "cli", m |-> max_depth, url |-> "http"]
    /\ remote = <<>>
    /\ view = [at |-> <<>>, stage |-> "steady", to |-> <<>>]
    /\ tstack = <<>>
    /\ attempt = 0
    /\ faults = 0
    /\ waits = {}
    /\ abandoned = {}
    /\ OutIdle
    /\ NoWords
    /\ site = anchors

\* DirectoryCrawler.__init__, on a site of two directories and a file
InitLink == InitLinkOn(Anchors)

NextLink ==
    \/ StartCrawling
    \/ CrawlMaxDepth
    \/ CrawlVisited
    \/ CrawlVisit
    \/ FetchOk
    \/ FetchFail
    \/ LogDirectory
    \/ LogFile
    \/ Recurse
    \/ Return
    \/ Finish

SpecLink == InitLink /\ [][NextLink]_vars

\* the interpreter runs the single thread of the crawl whenever it can
FairSpecLink == SpecLink /\ WF_vars(NextLink)

\* the crawler on a site that links to another authority
InitLinkForeign == InitLinkOn(ForeignAnchors)
SpecLinkForeign == InitLinkForeign /\ [][NextLink]_vars

\* the crawler on a site whose hrefs carry queries and fragments
InitLinkHref == InitLinkOn(HrefAnchors)
SpecLinkHref == InitLinkHref /\ [][NextLink]_vars

\* the crawler with the largest max_depth on a site of three directories
InitLinkDeep == InitLinkOn(DeepAnchors) /\ max_depth = MaxDepth
SpecLinkDeep == InitLinkDeep /\ [][NextLink]_vars

----------------------------------------------------------------------------
(* The remote widget of the click-based crawler.  The remote hierarchy is  *)
(* a tree of levels; a level is named by the path of row names that leads  *)
(* to it and holds content rows, each a Folder or a File.  A level's       *)
(* content is fixed the first time the widget displays it.  The widget     *)
(* shows one level at a time: the root level shows its content rows, any   *)
(* other level shows the return row first.  A click that takes effect      *)
(* starts a transition: the displayed rows are torn down (their element    *)
(* references become stale), then the target level's rows appear.          *)

\* most rows in the whole remote hierarchy
MaxNodes == 3
\* most misbehaviours of the widget (a click without effect, an intercepted
\* or unclickable row, a render slower than a wait) in one run
MaxFaults == 1
\* largest maximum depth given to the constructor
MaxConfigDepth == 1

\* max_depth=None, the constructor's default
None == -1

\* wait_for_click_tree(prev_tr_count, max_retry=3)
MaxRetry == 3
\* wait_for_tree(max_retry=3)
TreeMaxRetry == 3
\* crawl_tree: len(rows) < 2
MinRows == 2
\* crawl_tree: len(tds) < 3
MinCells == 3

RowTypes == {"Folder", "File"}

Contents(budget) == BoundedSeq(RowTypes, budget)

BackRow == [name |-> 0, type |-> "Back", cells |-> 3]

\* the cells of a row that is rendered incomplete
ShortCells == MinCells - 1

RECURSIVE RowsIn(_)
\* the rows of the levels in S
RowsIn(S) ==
    IF S = {} THEN 0
    ELSE LET l == CHOOSE x \in S : TRUE IN Len(remote[l]) + RowsIn(S \ {l})

NodesUsed == RowsIn(DOMAIN remote)

\* the <tr> rows of a displayed level, as td_child_selector selects them
LevelRows(lvl) ==
    LET content == remote[lvl]
        body == [n \in 1..Len(content) |-> [name |-> n, type |-> content[n], cells |-> 3]]
        full == IF lvl = <<>> THEN body ELSE <<BackRow>> \o body
    IN  [n \in 1..Len(full) |->
            IF <<lvl, n>> \in short THEN [full[n] EXCEPT !.cells = ShortCells] ELSE full[n]]

----------------------------------------------------------------------------
(* TreeCrawlerSelenium.                                                    *)

\* get_tree_rows: the rows in the DOM now
get_tree_rows == IF view.stage = "torn" THEN <<>> ELSE LevelRows(view.at)

\* crawl_tree, line 127: self.max_depth and depth >= self.max_depth
DepthLimitHit(depth) == max_depth # None /\ max_depth # 0 /\ depth >= max_depth

\* main, line 320: the constructor call, which passes no max_depth;
\* __init__, line 61: self.max_depth = max_depth
ConstructedMaxDepth(cfg) == IF cfg.via = "ctor" THEN cfg.m ELSE None

\* wait_for_click_tree, line 119: the value returned once the loop is over
wait_for_click_tree_result(w) == TRUE

\* a fresh crawl_tree frame.  rows is the frame's list of row elements,
\* fresh tells whether those elements are still in the DOM, cur is
\* current_path, wait the state of the wait_for_click_tree call under way.
TFrame(depth, path) ==
    [depth |-> depth, path |-> path, pc |-> "entry", rows |-> <<>>, fresh |-> TRUE,
     prev_tr_count |-> 0, index |-> 0, cur |-> <<>>,
     wait |-> [a |-> 0, ph |-> 0, w0 |-> 0, e0 |-> 0, timeouts |-> 0, p1fails |-> 0]]

\* wait_for_click_tree is called: attempt 1, phase 1
NewWait ==
    [a |-> 1, ph |-> 1, w0 |-> warning_count, e0 |-> errors_count,
     timeouts |-> 0, p1fails |-> 0]

\* what a finished wait did: how many attempts timed out (p1fails of them
\* waiting for the row count to drop), the warnings and errors it added, and
\* whether the widget displayed the clicked level when the wait returned
WaitSummary(f, purpose) ==
    [purpose |-> purpose, path |-> f.cur, timeouts |-> f.wait.timeouts,
     p1fails |-> f.wait.p1fails,
     warnings |-> warning_count - f.wait.w0, errors |-> errors_count - f.wait.e0,
     effective |-> view = [at |-> IF purpose = "enter" THEN f.cur ELSE f.path,
                           stage |-> "steady", to |-> view.to]]

\* one line of tree_items_selenium.log; shown is the level the widget
\* displayed when the line was written
TEvent(kind, f, name) ==
    [kind |-> kind, path |-> Append(f.path, name), depth |-> f.depth, shown |-> view.at]

\* the frames an exception leaves behind with rows still to process
Unwound(frames) ==
    {[path |-> frames[n].path, index |-> frames[n].index] :
        n \in {m \in DOMAIN frames :
                 frames[m].pc # "entry" /\ frames[m].index < Len(frames[m].rows)}}

\* mutant: the handler starts the level again from its first row
StaleHandlerRestart(f) ==
    LET r == get_tree_rows IN
    IF f.index >= Len(r)
    THEN tstack' = Pop(tstack)
    ELSE tstack' = SetTop(tstack, [f EXCEPT !.rows = r, !.fresh = TRUE, !.pc = "loop",
                                            !.index = 0])

\* crawl_tree, lines 245-248: except StaleElementReferenceException
StaleHandler(f) ==
    LET r == get_tree_rows IN
    IF f.index >= Len(r)
    THEN tstack' = Pop(tstack)
    ELSE tstack' = SetTop(tstack, [f EXCEPT !.rows = r, !.fresh = TRUE, !.pc = "loop"])

\* start, lines 260-264: the page is loaded, the view button found and clicked
StartView ==
    /\ phase = "ready" /\ configured.prog = "tree"
    /\ configured.url = "http"
    /\ \E content \in Contents(MaxNodes) :
        remote' = (<<>> :> content)
    /\ view' = [at |-> <<>>, stage |-> "steady", to |-> <<>>]
    /\ attempt' = 1
    /\ phase' = "waiting"
    /\ UNCHANGED <<max_depth, dirs_found, files_found, errors_count, events>>
    /\ UNCHANGED <<warning_count, configured, tstack, faults, waits, abandoned>>
    /\ UNCHANGED linkvars
    /\ UNCHANGED outvars
    /\ UNCHANGED inputvars

\* start, lines 260-271: loading the page or finding the view button raises
StartFails ==
    /\ phase = "ready" /\ configured.prog = "tree"
    /\ configured.url # "http" \/ faults < MaxFaults
    /\ faults' = IF configured.url = "http" THEN faults + 1 ELSE faults
    /\ errors_count' = errors_count + 1
    /\ phase' = "finishing"
    /\ UNCHANGED <<max_depth, dirs_found, files_found, events>>
    /\ UNCHANGED <<warning_count, configured, remote, view, tstack, attempt, waits, abandoned>>
    /\ UNCHANGED linkvars
    /\ UNCHANGED outvars
    /\ UNCHANGED inputvars

\* wait_for_tree, lines 90-92, and start, line 266: the tree is there, crawl_tree()
WaitForTreeOk ==
    /\ phase = "waiting"
    /\ phase' = "crawling"
    /\ tstack' = <<TFrame(0, <<>>)>>
    /\ UNCHANGED <<max_depth, dirs_found, files_found, errors_count, events>>
    /\ UNCHANGED <<warning_count, configured, remote, view, attempt, faults, waits, abandoned>>
    /\ UNCHANGED linkvars
    /\ UNCHANGED outvars
    /\ UNCHANGED inputvars

\* mutant: wait_for_tree gives up at its first timeout
WaitForTreeTimeoutOnce ==
    /\ phase = "waiting"
    /\ attempt > 1 \/ faults < MaxFaults
    /\ faults' = IF attempt = 1 THEN faults + 1 ELSE faults
    /\ warning_count' = warning_count + 1
    /\ attempt' = attempt + 1
    /\ phase' = "finishing"
    /\ UNCHANGED <<max_depth, dirs_found, files_found, errors_count, events>>
    /\ UNCHANGED <<configured, remote, view, tstack, waits, abandoned>>
    /\ UNCHANGED linkvars
    /\ UNCHANGED outvars
    /\ UNCHANGED inputvars

\* wait_for_tree, lines 93-98: an attempt times out; after max_retry of them
\* wait_for_tree returns False and start skips crawl_tree.  A tree that is
\* late is one misbehaviour of the widget, however many attempts it costs.
WaitForTreeTimeout ==
    /\ phase = "waiting"
    /\ attempt > 1 \/ faults < MaxFaults
    /\ faults' = IF attempt = 1 THEN faults + 1 ELSE faults
    /\ warning_count' = warning_count + 1
    /\ attempt' = attempt + 1
    /\ phase' = IF attempt < TreeMaxRetry THEN "waiting" ELSE "finishing"
    /\ UNCHANGED <<max_depth, dirs_found, files_found, errors_count, events>>
    /\ UNCHANGED <<configured, remote, view, tstack, waits, abandoned>>
    /\ UNCHANGED linkvars
    /\ UNCHANGED outvars
    /\ UNCHANGED inputvars

\* crawl_tree, lines 127-129: the depth limit is reached, return
TreeMaxDepth ==
    /\ phase = "crawling" /\ tstack # <<>>
    /\ Top(tstack).pc = "entry"
    /\ DepthLimitHit(Top(tstack).depth)
    /\ tstack' = Pop(tstack)
    /\ UNCHANGED sharedvars
    /\ UNCHANGED <<warning_count, configured, remote, view, attempt, faults, waits, abandoned>>
    /\ UNCHANGED linkvars
    /\ UNCHANGED outvars
    /\ UNCHANGED inputvars

\* crawl_tree, lines 130-133: fewer than two rows, return
\* mutant: the return of a level without rows is counted as a warning
TreeNoRowsWarns ==
    /\ phase = "crawling" /\ tstack # <<>>
    /\ Top(tstack).pc = "entry"
    /\ ~DepthLimitHit(Top(tstack).depth)
    /\ Len(get_tree_rows) < MinRows
    /\ tstack' = Pop(tstack)
    /\ warning_count' = warning_count + 1
    /\ UNCHANGED sharedvars
    /\ UNCHANGED <<configured, remote, view, attempt, faults, waits, abandoned>>
    /\ UNCHANGED linkvars
    /\ UNCHANGED outvars
    /\ UNCHANGED inputvars

TreeNoRows ==
    /\ phase = "crawling" /\ tstack # <<>>
    /\ Top(tstack).pc = "entry"
    /\ ~DepthLimitHit(Top(tstack).depth)
    /\ Len(get_tree_rows) < MinRows
    /\ tstack' = Pop(tstack)
    /\ UNCHANGED sharedvars
    /\ UNCHANGED <<warning_count, configured, remote, view, attempt, faults, waits, abandoned>>
    /\ UNCHANGED linkvars
    /\ UNCHANGED outvars
    /\ UNCHANGED inputvars

\* crawl_tree, lines 130-135: the level's rows are read, the loop starts
TreeEnterLevel ==
    /\ phase = "crawling" /\ tstack # <<>>
    /\ Top(tstack).pc = "entry"
    /\ ~DepthLimitHit(Top(tstack).depth)
    /\ Len(get_tree_rows) >= MinRows
    /\ tstack' = SetTop(tstack, [Top(tstack) EXCEPT !.pc = "loop",
                                                    !.rows = get_tree_rows,
                                                    !.fresh = TRUE,
                                                    !.prev_tr_count = Len(get_tree_rows),
                                                    !.index = 0])
    /\ UNCHANGED sharedvars
    /\ UNCHANGED <<warning_count, configured, remote, view, attempt, faults, waits, abandoned>>
    /\ UNCHANGED linkvars
    /\ UNCHANGED outvars
    /\ UNCHANGED inputvars

\* crawl_tree, line 136: index < len(rows) is false, the frame returns
LevelDone ==
    /\ phase = "crawling" /\ tstack # <<>>
    /\ Top(tstack).pc = "loop"
    /\ Top(tstack).index >= Len(Top(tstack).rows)
    /\ tstack' = Pop(tstack)
    /\ UNCHANGED sharedvars
    /\ UNCHANGED <<warning_count, configured, remote, view, attempt, faults, waits, abandoned>>
    /\ UNCHANGED linkvars
    /\ UNCHANGED outvars
    /\ UNCHANGED inputvars

\* crawl_tree, lines 138-139, 161/207 and 245-248: the row element is stale
\* when its cells are read or when its click is tried; the handler reads
\* the rows again and keeps index
RowStale ==
    /\ phase = "crawling" /\ tstack # <<>>
    /\ \/ Top(tstack).pc = "loop" /\ Top(tstack).index < Len(Top(tstack).rows)
       \/ Top(tstack).pc = "click"
    /\ ~Top(tstack).fresh
    /\ StaleHandler(Top(tstack))
    /\ UNCHANGED sharedvars
    /\ UNCHANGED <<warning_count, configured, remote, view, attempt, faults, waits, abandoned>>
    /\ UNCHANGED linkvars
    /\ UNCHANGED outvars
    /\ UNCHANGED inputvars

\* crawl_tree, lines 138-141: the row read at index has fewer than three
\* cells and the loop continues; index += 1 (line 152) is not reached.  The
\* widget renders a row incomplete at most once per fault it may commit.
RowShort ==
    /\ phase = "crawling" /\ tstack # <<>>
    /\ LET f == Top(tstack) IN
        /\ f.pc = "loop" /\ f.index < Len(f.rows) /\ f.fresh
        /\ \/ /\ f.rows[f.index + 1].cells < MinCells
              /\ UNCHANGED <<short, faults, tstack>>
           \/ /\ f.rows[f.index + 1].cells >= MinCells
              /\ view.stage = "steady" /\ f.rows = get_tree_rows
              /\ faults < MaxFaults
              /\ faults' = faults + 1
              /\ short' = short \cup {<<view.at, f.index + 1>>}
              /\ tstack' = SetTop(tstack,
                    [f EXCEPT !.rows[f.index + 1].cells = ShortCells])
    /\ UNCHANGED sharedvars
    /\ UNCHANGED <<warning_count, configured, remote, view, attempt, waits, abandoned>>
    /\ UNCHANGED linkvars
    /\ UNCHANGED <<summary, search_results, export>>
    /\ UNCHANGED inputvars

\* the row crawl_tree reads at line 138 and that lines 150-152 accept
ReadableRow(f) ==
    /\ f.pc = "loop"
    /\ f.index < Len(f.rows)
    /\ f.fresh
    /\ f.rows[f.index + 1].cells >= MinCells

\* crawl_tree, lines 152 and 202-203: below the top level the first row is
\* the return row
RowBack ==
    /\ phase = "crawling" /\ tstack # <<>>
    /\ LET f == Top(tstack) IN
        /\ ReadableRow(f)
        /\ f.depth # 0 /\ f.index + 1 = 1
        /\ tstack' = SetTop(tstack, [f EXCEPT !.index = f.index + 1])
    /\ UNCHANGED sharedvars
    /\ UNCHANGED <<warning_count, configured, remote, view, attempt, faults, waits, abandoned>>
    /\ UNCHANGED linkvars
    /\ UNCHANGED outvars
    /\ UNCHANGED inputvars

\* crawl_tree, lines 157-159 and 204-206: a Folder row is logged and counted
RowFolder ==
    /\ phase = "crawling" /\ tstack # <<>>
    /\ LET f == Top(tstack)
           row == f.rows[f.index + 1]
       IN
        /\ ReadableRow(f)
        /\ ~(f.depth # 0 /\ f.index + 1 = 1)
        /\ row.type = "Folder"
        /\ events' = Append(events, TEvent("DIRECTORY", f, row.name))
        /\ dirs_found' = dirs_found + 1
        /\ tstack' = SetTop(tstack, [f EXCEPT !.index = f.index + 1,
                                              !.cur = Append(f.path, row.name),
                                              !.pc = "click"])
    /\ UNCHANGED <<max_depth, files_found, errors_count, phase>>
    /\ UNCHANGED <<warning_count, configured, remote, view, attempt, faults, waits, abandoned>>
    /\ UNCHANGED linkvars
    /\ UNCHANGED outvars
    /\ UNCHANGED inputvars

\* the text of the name cell of the row called n: the widget names its rows
\* by a number, and every other row carries its name in a name parameter
\* and contains a search word
Digits == <<"1", "2", "3", "4", "5", "6", "7", "8", "9">>
NameCell(n) ==
    IF n % 2 = 1
    THEN Sym("id") \o Sym("&name=") \o Report \o Sym(Digits[n]) \o Sym("&") \o Sym("v")
    ELSE Sym(Digits[n])

\* crawl_tree, lines 176 and 218: "/".join(path)
RECURSIVE search_dl_folder_name(_)
search_dl_folder_name(path) ==
    IF path = <<>> THEN <<>>
    ELSE IF Len(path) = 1 THEN NameCell(path[1])
    ELSE search_dl_folder_name(SubSeq(path, 1, Len(path) - 1))
            \o Sym("/") \o NameCell(path[Len(path)])

\* crawl_tree, lines 179-183 and 221-225: the value of the first name
\* parameter, up to the next &; the whole text when there is none (the
\* names of the model have no % escape)
search_dl_file_name(name) ==
    LET starts == {p \in DOMAIN name :
                     /\ name[p] = Ch("&name=", "x")
                     /\ p < Len(name) /\ name[p + 1] # Ch("&", "x")}
    IN  IF starts = {} THEN name
        ELSE LET p == CHOOSE x \in starts : \A y \in starts : x <= y
                 ends == {q \in (p + 1)..Len(name) : name[q] = Ch("&", "x")}
                 q == IF ends = {} THEN Len(name) + 1
                      ELSE CHOOSE x \in ends : \A y \in ends : x <= y
             IN  SubSeq(name, p + 1, q - 1)

\* crawl_tree, lines 171-188 and 213-230: a File row is logged and counted,
\* and its name is looked up in the search words
RowFile ==
    /\ phase = "crawling" /\ tstack # <<>>
    /\ LET f == Top(tstack)
           row == f.rows[f.index + 1]
       IN
        /\ ReadableRow(f)
        /\ ~(f.depth # 0 /\ f.index + 1 = 1)
        /\ row.type = "File"
        /\ events' = Append(events, TEvent("FILE", f, row.name))
        /\ files_found' = files_found + 1
        /\ search_results' = is_include_search_word(
                search_dl_folder_name(f.path), search_dl_file_name(NameCell(row.name)),
                search_results)
        /\ tstack' = SetTop(tstack, [f EXCEPT !.index = f.index + 1,
                                              !.cur = Append(f.path, row.name)])
    /\ UNCHANGED <<max_depth, dirs_found, errors_count, phase>>
    /\ UNCHANGED <<warning_count, configured, remote, view, attempt, faults, waits, abandoned>>
    /\ UNCHANGED linkvars
    /\ UNCHANGED <<short, summary, export>>
    /\ UNCHANGED inputvars

\* crawl_tree, lines 161 and 207: the Folder row becomes clickable and the
\* click starts the transition into it
ClickEffective ==
    /\ phase = "crawling" /\ tstack # <<>>
    /\ LET f == Top(tstack) IN
        /\ f.pc = "click" /\ f.fresh
        /\ view.stage = "steady"
        /\ view' = [view EXCEPT !.stage = "clicked",
                                !.to = Append(view.at, f.rows[f.index].name)]
        /\ tstack' = SetTop(tstack, [f EXCEPT !.pc = "enterwait", !.wait = NewWait])
    /\ UNCHANGED sharedvars
    /\ UNCHANGED <<warning_count, configured, remote, attempt, faults, waits, abandoned>>
    /\ UNCHANGED linkvars
    /\ UNCHANGED outvars
    /\ UNCHANGED inputvars

\* crawl_tree, lines 161 and 207: the click returns but the widget does not
\* change level (it ignores the click, or is in a transition already)
ClickNoEffect ==
    /\ phase = "crawling" /\ tstack # <<>>
    /\ LET f == Top(tstack) IN
        /\ f.pc = "click" /\ f.fresh
        /\ view.stage # "steady" \/ faults < MaxFaults
        /\ faults' = IF view.stage = "steady" THEN faults + 1 ELSE faults
        /\ tstack' = SetTop(tstack, [f EXCEPT !.pc = "enterwait", !.wait = NewWait])
    /\ UNCHANGED sharedvars
    /\ UNCHANGED <<warning_count, configured, remote, view, attempt, waits, abandoned>>
    /\ UNCHANGED linkvars
    /\ UNCHANGED outvars
    /\ UNCHANGED inputvars

\* mutant: the handler of the intercepted click steps back to the row, which
\* the loop then reads and clicks again
ClickInterceptedRetry ==
    /\ phase = "crawling" /\ tstack # <<>>
    /\ LET f == Top(tstack) IN
        /\ f.pc = "click" /\ f.fresh
        /\ faults < MaxFaults
        /\ faults' = faults + 1
        /\ errors_count' = errors_count + 1
        /\ tstack' = SetTop(tstack, [f EXCEPT !.pc = "loop", !.index = f.index - 1])
    /\ UNCHANGED <<max_depth, dirs_found, files_found, events, phase>>
    /\ UNCHANGED <<warning_count, configured, remote, view, attempt, waits, abandoned>>
    /\ UNCHANGED linkvars
    /\ UNCHANGED outvars
    /\ UNCHANGED inputvars

\* crawl_tree, lines 241-243: except ElementClickInterceptedException
ClickIntercepted ==
    /\ phase = "crawling" /\ tstack # <<>>
    /\ LET f == Top(tstack) IN
        /\ f.pc = "click" /\ f.fresh
        /\ faults < MaxFaults
        /\ faults' = faults + 1
        /\ errors_count' = errors_count + 1
        /\ tstack' = SetTop(tstack, [f EXCEPT !.pc = "loop"])
    /\ UNCHANGED <<max_depth, dirs_found, files_found, events, phase>>
    /\ UNCHANGED <<warning_count, configured, remote, view, attempt, waits, abandoned>>
    /\ UNCHANGED linkvars
    /\ UNCHANGED outvars
    /\ UNCHANGED inputvars

\* an exception no except clause of crawl_tree names leaves every
\* crawl_tree frame; start, lines 269-271, catches and counts it
Escape ==
    /\ abandoned' = abandoned \cup Unwound(tstack)
    /\ tstack' = <<>>
    /\ errors_count' = errors_count + 1
    /\ phase' = "finishing"

\* crawl_tree, lines 165-168 and 210: find_element finds no row in the DOM
\* and raises NoSuchElementException
BackRowMissing(f) == f.pc = "back" /\ get_tree_rows = <<>>

\* crawl_tree, lines 161/207 and 165-168/210: WebDriverWait(...).until(
\* element_to_be_clickable) raises TimeoutException, or the return row is
\* not found; no except clause of crawl_tree names either exception
Uncaught ==
    /\ phase = "crawling" /\ tstack # <<>>
    /\ \/ Top(tstack).pc = "click" /\ Top(tstack).fresh /\ faults < MaxFaults
       \/ BackRowMissing(Top(tstack))
    /\ faults' = IF Top(tstack).pc = "click" THEN faults + 1 ELSE faults
    /\ Escape
    /\ UNCHANGED <<max_depth, dirs_found, files_found, events>>
    /\ UNCHANGED <<warning_count, configured, remote, view, attempt, waits>>
    /\ UNCHANGED linkvars
    /\ UNCHANGED outvars
    /\ UNCHANGED inputvars

\* the frame waits in wait_for_click_tree
Waiting(f) == f.pc \in {"enterwait", "exitwait"} /\ f.wait.a <= MaxRetry

RowCount == Len(get_tree_rows)

\* wait_for_click_tree, lines 105-107: the row count is below prev_tr_count
WaitDrop ==
    /\ phase = "crawling" /\ tstack # <<>>
    /\ LET f == Top(tstack) IN
        /\ Waiting(f) /\ f.wait.ph = 1
        /\ RowCount < f.prev_tr_count
        /\ tstack' = SetTop(tstack, [f EXCEPT !.wait.ph = 2])
    /\ UNCHANGED sharedvars
    /\ UNCHANGED <<warning_count, configured, remote, view, attempt, faults, waits, abandoned>>
    /\ UNCHANGED linkvars
    /\ UNCHANGED outvars
    /\ UNCHANGED inputvars

\* wait_for_click_tree, lines 109-112: the row count is above 1; the
\* attempt is over and the for loop goes on
WaitRise ==
    /\ phase = "crawling" /\ tstack # <<>>
    /\ LET f == Top(tstack) IN
        /\ Waiting(f) /\ f.wait.ph = 2
        /\ RowCount > 1
        /\ tstack' = SetTop(tstack, [f EXCEPT !.wait.a = f.wait.a + 1, !.wait.ph = 1])
    /\ UNCHANGED sharedvars
    /\ UNCHANGED <<warning_count, configured, remote, view, attempt, faults, waits, abandoned>>
    /\ UNCHANGED linkvars
    /\ UNCHANGED outvars
    /\ UNCHANGED inputvars

\* a timed-out attempt that is not counted
TimeoutNotCounted(count) == count

\* wait_for_click_tree, line 115: self.warning_count += 1
TimeoutCounted(count) == count + 1

\* wait_for_click_tree, lines 113-117: a WebDriverWait of the attempt times
\* out (while a transition is under way: the render is slower than the wait)
WaitTimeout ==
    /\ phase = "crawling" /\ tstack # <<>>
    /\ LET f == Top(tstack) IN
        /\ Waiting(f)
        /\ \/ f.wait.ph = 1 /\ ~(RowCount < f.prev_tr_count)
           \/ f.wait.ph = 2 /\ ~(RowCount > 1)
        /\ view.stage = "steady" \/ faults < MaxFaults
        /\ faults' = IF view.stage = "steady" THEN faults ELSE faults + 1
        /\ warning_count' = TimeoutCounted(warning_count)
        /\ tstack' = SetTop(tstack,
             [f EXCEPT !.wait.a = f.wait.a + 1, !.wait.ph = 1,
                       !.wait.timeouts = f.wait.timeouts + 1,
                       !.wait.p1fails = f.wait.p1fails + (IF f.wait.ph = 1 THEN 1 ELSE 0)])
    /\ UNCHANGED <<max_depth, dirs_found, files_found, errors_count, events, phase>>
    /\ UNCHANGED <<configured, remote, view, attempt, waits, abandoned>>
    /\ UNCHANGED linkvars
    /\ UNCHANGED outvars
    /\ UNCHANGED inputvars

\* crawl_tree, lines 162-163 and 208-209: wait_for_click_tree has returned;
\* if its value is true, crawl_tree(depth + 1, current_path)
EnterWaitReturn ==
    /\ phase = "crawling" /\ tstack # <<>>
    /\ LET f == Top(tstack) IN
        /\ f.pc = "enterwait" /\ f.wait.a > MaxRetry
        /\ waits' = waits \cup {WaitSummary(f, "enter")}
        /\ tstack' = IF wait_for_click_tree_result(f.wait)
                     THEN Append(SetTop(tstack, [f EXCEPT !.pc = "back"]),
                                 TFrame(f.depth + 1, f.cur))
                     ELSE SetTop(tstack, [f EXCEPT !.pc = "loop"])
    /\ UNCHANGED sharedvars
    /\ UNCHANGED <<warning_count, configured, remote, view, attempt, faults, abandoned>>
    /\ UNCHANGED linkvars
    /\ UNCHANGED outvars
    /\ UNCHANGED inputvars

\* crawl_tree, lines 170 and 212: the wait after the return click is over
ExitWaitReturn ==
    /\ phase = "crawling" /\ tstack # <<>>
    /\ LET f == Top(tstack) IN
        /\ f.pc = "exitwait" /\ f.wait.a > MaxRetry
        /\ waits' = waits \cup {WaitSummary(f, "exit")}
        /\ tstack' = SetTop(tstack, [f EXCEPT !.pc = "loop"])
    /\ UNCHANGED sharedvars
    /\ UNCHANGED <<warning_count, configured, remote, view, attempt, faults, abandoned>>
    /\ UNCHANGED linkvars
    /\ UNCHANGED outvars
    /\ UNCHANGED inputvars

\* the level a click on row r of the displayed level leads to
ClickTarget(r) ==
    IF r.type = "Back" THEN Pop(view.at)
    ELSE IF r.type = "Folder" THEN Append(view.at, r.name)
    ELSE view.at

\* mutant: the frame goes on with its loop without clicking the return row
BackClickSkipped ==
    /\ phase = "crawling" /\ tstack # <<>>
    /\ LET f == Top(tstack) IN
        /\ f.pc = "back"
        /\ view.stage = "steady"
        /\ get_tree_rows # <<>>
        /\ get_tree_rows[1].type # "File"
        /\ tstack' = SetTop(tstack, [f EXCEPT !.pc = "loop"])
    /\ UNCHANGED sharedvars
    /\ UNCHANGED <<warning_count, configured, remote, view, attempt, faults, waits, abandoned>>
    /\ UNCHANGED linkvars
    /\ UNCHANGED outvars
    /\ UNCHANGED inputvars

\* crawl_tree, lines 165-169 and 210-211: the first row of the DOM is found
\* and clicked, and the click starts a transition
BackClickEffective ==
    /\ phase = "crawling" /\ tstack # <<>>
    /\ LET f == Top(tstack) IN
        /\ f.pc = "back"
        /\ view.stage = "steady"
        /\ get_tree_rows # <<>>
        /\ get_tree_rows[1].type # "File"
        /\ view' = [view EXCEPT !.stage = "clicked", !.to = ClickTarget(get_tree_rows[1])]
        /\ tstack' = SetTop(tstack, [f EXCEPT !.pc = "exitwait", !.wait = NewWait])
    /\ UNCHANGED sharedvars
    /\ UNCHANGED <<warning_count, configured, remote, attempt, faults, waits, abandoned>>
    /\ UNCHANGED linkvars
    /\ UNCHANGED outvars
    /\ UNCHANGED inputvars

\* crawl_tree, lines 165-169 and 210-211: the first row is clicked and the
\* widget does not change level (the row is a File row, a transition is
\* under way, or the widget ignores the click)
BackClickNoEffect ==
    /\ phase = "crawling" /\ tstack # <<>>
    /\ LET f == Top(tstack)
           free == view.stage # "steady" \/ get_tree_rows[1].type = "File"
       IN
        /\ f.pc = "back"
        /\ get_tree_rows # <<>>
        /\ free \/ faults < MaxFaults
        /\ faults' = IF free THEN faults ELSE faults + 1
        /\ tstack' = SetTop(tstack, [f EXCEPT !.pc = "exitwait", !.wait = NewWait])
    /\ UNCHANGED sharedvars
    /\ UNCHANGED <<warning_count, configured, remote, view, attempt, waits, abandoned>>
    /\ UNCHANGED linkvars
    /\ UNCHANGED outvars
    /\ UNCHANGED inputvars

\* crawl_tree, lines 169/211 and 241-243: the return click is intercepted
BackClickIntercepted ==
    /\ phase = "crawling" /\ tstack # <<>>
    /\ LET f == Top(tstack) IN
        /\ f.pc = "back"
        /\ get_tree_rows # <<>>
        /\ faults < MaxFaults
        /\ faults' = faults + 1
        /\ errors_count' = errors_count + 1
        /\ tstack' = SetTop(tstack, [f EXCEPT !.pc = "loop"])
    /\ UNCHANGED <<max_depth, dirs_found, files_found, events, phase>>
    /\ UNCHANGED <<warning_count, configured, remote, view, attempt, waits, abandoned>>
    /\ UNCHANGED linkvars
    /\ UNCHANGED outvars
    /\ UNCHANGED inputvars

\* the widget removes the rows of the level it leaves: every row element
\* the crawler holds becomes stale
Teardown ==
    /\ phase = "crawling"
    /\ view.stage = "clicked"
    /\ view' = [view EXCEPT !.stage = "torn"]
    /\ tstack' = [n \in DOMAIN tstack |-> [tstack[n] EXCEPT !.fresh = FALSE]]
    /\ UNCHANGED sharedvars
    /\ UNCHANGED <<warning_count, configured, remote, attempt, faults, waits, abandoned>>
    /\ UNCHANGED linkvars
    /\ UNCHANGED outvars
    /\ UNCHANGED inputvars

\* the crawler is still waiting to see the row count drop
AwaitingDrop ==
    /\ tstack # <<>>
    /\ Top(tstack).pc \in {"enterwait", "exitwait"}
    /\ Top(tstack).wait.a <= MaxRetry
    /\ Top(tstack).wait.ph = 1

\* the widget shows the rows of the level it goes to (while the crawler
\* still waits for the drop: the render is faster than the wait's polling)
Populate ==
    /\ phase = "crawling"
    /\ view.stage = "torn"
    /\ ~AwaitingDrop \/ faults < MaxFaults
    /\ faults' = IF AwaitingDrop THEN faults + 1 ELSE faults
    /\ view' = [view EXCEPT !.stage = "steady", !.at = view.to]
    /\ IF view.to \in DOMAIN remote
       THEN remote' = remote
       ELSE \E content \in Contents(MaxNodes - NodesUsed) :
                remote' = remote @@ (view.to :> content)
    /\ UNCHANGED sharedvars
    /\ UNCHANGED <<warning_count, configured, tstack, attempt, waits, abandoned>>
    /\ UNCHANGED linkvars
    /\ UNCHANGED outvars
    /\ UNCHANGED inputvars

\* start, lines 272-287: the export is written and the summary logged
FinishTree ==
    /\ configured.prog = "tree"
    /\ \/ phase = "crawling" /\ tstack = <<>>
       \/ phase = "finishing"
    /\ phase' = "done"
    /\ export' = write_to_xlsx(search_results)
    /\ summary' = TreeSummary(IF phase = "finishing" THEN "failure" ELSE "return")
    /\ UNCHANGED <<max_depth, dirs_found, files_found, errors_count, events>>
    /\ UNCHANGED treevars
    /\ UNCHANGED linkvars
    /\ UNCHANGED <<short, search_results>>
    /\ UNCHANGED inputvars

\* mutant: the interrupt skips the export
InterruptTreeDiscards ==
    /\ configured.prog = "tree"
    /\ phase \in {"waiting", "crawling"}
    /\ faults < MaxFaults
    /\ faults' = faults + 1
    /\ tstack' = <<>>
    /\ phase' = "done"
    /\ summary' = TreeSummary("interrupt")
    /\ UNCHANGED <<max_depth, dirs_found, files_found, errors_count, events>>
    /\ UNCHANGED <<warning_count, configured, remote, view, attempt, waits, abandoned>>
    /\ UNCHANGED linkvars
    /\ UNCHANGED <<short, search_results, export>>
    /\ UNCHANGED inputvars

\* KeyboardInterrupt raised inside the try of start (wait_for_tree,
\* crawl_tree at any depth, a wait_for_click_tree, a sleep): no except
\* clause below start names it; start catches it (lines 267-268), writes
\* the export (lines 276-278) and logs the summary (lines 280-286).  The
\* interrupt counts among the adverse events of a run.
InterruptTree ==
    /\ configured.prog = "tree"
    /\ phase \in {"waiting", "crawling"}
    /\ faults < MaxFaults
    /\ faults' = faults + 1
    /\ tstack' = <<>>
    /\ phase' = "done"
    /\ export' = write_to_xlsx(search_results)
    /\ summary' = TreeSummary("interrupt")
    /\ UNCHANGED <<max_depth, dirs_found, files_found, errors_count, events>>
    /\ UNCHANGED <<warning_count, configured, remote, view, attempt, waits, abandoned>>
    /\ UNCHANGED linkvars
    /\ UNCHANGED <<short, search_results>>
    /\ UNCHANGED inputvars

\* the configurations of a run: a maximum depth given to the constructor,
\* or main run with --max-depth 1
TreeConfigs ==
    {[prog |-> "tree", via |-> "ctor", m |-> d, url |-> "http"] : d \in 0..MaxConfigDepth}
        \cup {[prog |-> "tree", via |-> "cli", m |-> 1, url |-> "http"]}

\* the click-based crawler's own variables before start is called
TreeIdle ==
    /\ warning_count = 0
    /\ remote = <<>>
    /\ view = [at |-> <<>>, stage |-> "steady", to |-> <<>>]
    /\ tstack = <<>>
    /\ attempt = 0
    /\ faults = 0
    /\ waits = {}
    /\ abandoned = {}

\* the link-based crawler's own variables before start_crawling is called
LinkIdle ==
    /\ visited_urls = {}
    /\ stack = <<>>
    /\ fetched = <<>>
    /\ served = [u \in Urls |-> NoPage]
    /\ failed = {}
    /\ passed = {}

\* TreeCrawlerSelenium.__init__
InitTree ==
    /\ configured \in TreeConfigs
    /\ max_depth = ConstructedMaxDepth(configured)
    /\ dirs_found = 0 /\ files_found = 0 /\ errors_count = 0
    /\ events = <<>>
    /\ phase = "ready"
    /\ TreeIdle
    /\ LinkIdle
    /\ OutIdle
    /\ site = {}
    /\ search_nec_words = <<NEC>>
    /\ search_words = <<Report>>
    /\ exclusion_words = <<>>

NextTree ==
    \/ StartView
    \/ StartFails
    \/ WaitForTreeOk
    \/ WaitForTreeTimeout
    \/ TreeMaxDepth
    \/ TreeNoRows
    \/ TreeEnterLevel
    \/ LevelDone
    \/ RowStale
    \/ RowShort
    \/ RowBack
    \/ RowFolder
    \/ RowFile
    \/ ClickEffective
    \/ ClickNoEffect
    \/ ClickIntercepted
    \/ Uncaught
    \/ WaitDrop
    \/ WaitRise
    \/ WaitTimeout
    \/ EnterWaitReturn
    \/ ExitWaitReturn
    \/ BackClickEffective
    \/ BackClickNoEffect
    \/ BackClickIntercepted
    \/ Teardown
    \/ Populate
    \/ FinishTree

SpecTree == InitTree /\ [][NextTree]_vars

\* ---- the programs from their command line on

\* what main is given: directory_crawler.py and directory_crawler_selenium.py
\* (prog "link": their main and crawl_url have the same control flow) or
\* tree_crawler_selenium.py, a --url that starts with http:// or https://
\* ("http") or does not ("bare"), and --max-depth; and a caller of its own
\* that builds TreeCrawlerSelenium with max_depth and calls start
ProgramConfigs ==
    {[prog |-> "link", via |-> "cli", m |-> d, url |-> u] :
        d \in 1..MaxConfigDepth + 1, u \in {"http", "bare"}}
      \cup {[prog |-> "tree", via |-> "cli", m |-> 1, url |-> u] : u \in {"http", "bare"}}
      \cup {[prog |-> "tree", via |-> "ctor", m |-> MaxConfigDepth, url |-> "http"]}

InitProgram ==
    /\ configured \in ProgramConfigs
    /\ max_depth = None
    /\ dirs_found = 0 /\ files_found = 0 /\ errors_count = 0
    /\ events = <<>>
    /\ phase = "main"
    /\ TreeIdle
    /\ LinkIdle
    /\ OutIdle
    /\ IF configured.prog = "tree"
       THEN search_nec_words = <<NEC>> /\ search_words = <<Report>>
                /\ exclusion_words = <<>>
       ELSE NoWords
    /\ site = IF configured.prog = "link" THEN Anchors ELSE {}

\* directory_crawler.py main, lines 266-268, and
\* directory_crawler_selenium.py main, lines 163-165: the URL is refused
MainRejectsUrl ==
    /\ phase = "main"
    /\ configured.prog = "link" /\ configured.url # "http"
    /\ phase' = "exited"
    /\ UNCHANGED <<max_depth, dirs_found, files_found, errors_count, events>>
    /\ UNCHANGED <<linkvars, treevars, outvars, inputvars>>

\* main builds the crawler: directory_crawler.py line 271 with
\* max_depth=args.max_depth, tree_crawler_selenium.py line 320 without it
\* (and with no test of the URL before it); or the caller does
MainConstructs ==
    /\ phase = "main"
    /\ configured.prog = "link" => configured.url = "http"
    /\ max_depth' = IF configured.prog = "link" THEN configured.m
                    ELSE ConstructedMaxDepth(configured)
    /\ phase' = "ready"
    /\ UNCHANGED <<dirs_found, files_found, errors_count, events>>
    /\ UNCHANGED <<linkvars, treevars, outvars, inputvars>>

NextProgram ==
    \/ MainRejectsUrl
    \/ MainConstructs
    \/ NextLink
    \/ InterruptLink
    \/ NextTree
    \/ InterruptTree

SpecProgram == InitProgram /\ [][NextProgram]_vars

\* search_word used on its own: no crawler runs
InitSearch ==
    /\ SearchImported
    /\ max_depth = None
    /\ dirs_found = 0 /\ files_found = 0 /\ errors_count = 0
    /\ events = <<>>
    /\ configured = [prog |-> "search", via |-> "ctor", m |-> None, url |-> "http"]
    /\ TreeIdle
    /\ LinkIdle
    /\ short = {}
    /\ summary = NoSummary
    /\ site = {}

NextSearch ==
    \/ ScanFile
    \/ WriteXlsx

SpecSearch == InitSearch /\ [][NextSearch]_vars

\* the interpreter keeps running the crawler while it has a step to take
FairSpecTree == SpecTree /\ WF_vars(NextTree)

----------------------------------------------------------------------------
(* Properties of the link-based crawler.                                   *)

\* the directory (slash = TRUE) or file links of a page that stay on the
\* root's authority, counted per target location
LinksTo(page, slash, u) ==
    Cardinality({n \in DOMAIN page :
        page[n].netloc = OwnNetloc /\ page[n].slash = slash /\ page[n].url = u})

NLinks(page, slash) ==
    Cardinality({n \in DOMAIN page :
        page[n].netloc = OwnNetloc /\ page[n].slash = slash})

EventsOf(kind, u) ==
    Cardinality({n \in DOMAIN events : events[n].kind = kind /\ events[n].url = u})

HasLink(u, v) ==
    /\ served[u].got
    /\ \E n \in DOMAIN served[u].page :
        served[u].page[n].url = v /\ served[u].page[n].slash

\* C1: for every finite max_depth and every hierarchy of finite pages,
\* cyclic ones included, a run of crawl_url started at the root terminates
\* (every fetch returns or fails): the driver reaches its summary.
C1_Termination == <>(phase = "done")

\* a finished run over a hierarchy in which a and b link to each other
C1_Witness ==
    /\ phase = "done"
    /\ HasLink("a", "b") /\ HasLink("b", "a")

\* C2: no location is fetched twice in a run, however many pages link to it
\* and at whatever depths; a location is in visited_urls before its fetch.
C2_FetchedOnce ==
    /\ \A m, n \in DOMAIN fetched : fetched[m] = fetched[n] => m = n
    /\ \A n \in DOMAIN fetched : fetched[n] \in visited_urls
    /\ \A n \in DOMAIN stack : stack[n].pc # "enter" => stack[n].url \in visited_urls

\* a finished run in which one fetched location was passed to crawl_url from
\* two places at different depths, both below the depth limit
C2_Witness ==
    /\ phase = "done"
    /\ \E p, q \in passed :
        /\ p.url = q.url /\ p.depth # q.depth
        /\ p.depth < max_depth /\ q.depth < max_depth
        /\ \E n \in DOMAIN fetched : fetched[n] = p.url

\* C3: every DIRECTORY or FILE event is emitted by a frame whose
\* current_depth is below max_depth, so no emitted node lies more than
\* max_depth links below the root; with max_depth = 0 nothing is fetched
\* and nothing is emitted.
C3_DepthBound ==
    /\ \A n \in DOMAIN events :
        /\ events[n].depth < max_depth
        /\ Len(events[n].frame) + 1 <= max_depth
    /\ max_depth = 0 => fetched = <<>> /\ events = <<>>

\* a finished run with max_depth = 2 that emitted at depth 1 and cut a
\* branch at depth 2
C3_Witness ==
    /\ phase = "done" /\ max_depth = 2
    /\ \E n \in DOMAIN events : events[n].depth = 1
    /\ \E p \in passed : p.depth = 2

C8_DepthOneScenario ==
    (phase = "done" /\ max_depth = 1 /\ served[Root].got) =>
        /\ \A u \in Urls :
            /\ EventsOf("DIRECTORY", u) = LinksTo(served[Root].page, TRUE, u)
            /\ EventsOf("FILE", u) = LinksTo(served[Root].page, FALSE, u)
        /\ fetched = <<Root>>
        /\ dirs_found = NLinks(served[Root].page, TRUE)
        /\ files_found = NLinks(served[Root].page, FALSE)
        /\ errors_count = 0

\* a finished depth-1 run whose root lists a directory and a file
C8_Witness ==
    /\ phase = "done" /\ max_depth = 1 /\ served[Root].got
    /\ dirs_found = 1 /\ files_found = 1

\* C9: a failed fetch of L adds exactly 1 to errors_count, L's frame emits
\* nothing, and every sibling after L on the parent's page is still passed
\* to crawl_url: the failure stays in L's frame.
C9_FetchFailureIsLocal ==
    /\ errors_count = Cardinality(failed)
    /\ \A n \in DOMAIN events : events[n].by \notin failed
    /\ phase = "done" =>
        \A p \in passed : p.url \in failed =>
            \A m \in (p.n + 1)..NLinks(served[p.by].page, TRUE) :
                \E q \in passed : q.from = p.from /\ q.n = m

\* a finished run in which a failed location had a later sibling whose
\* own fetch then succeeded
C9_Witness ==
    /\ phase = "done"
    /\ \E p, q \in passed :
        /\ p.url \in failed
        /\ q.from = p.from /\ q.n = p.n + 1
        /\ q.url # p.url /\ served[q.url].got

----------------------------------------------------------------------------
(* Properties of the click-based crawler.                                  *)

\* the waits that followed the click on a Folder row
EnterWaits == {w \in waits : w.purpose = "enter"}

\* C4 as claimed: for every configured maximum depth m >= 0, given to the
\* constructor or through --max-depth, no DIRECTORY or FILE event carries a
\* path of more than m names, and a frame entered at depth m returns
\* without reading any row.
C4_TreeDepthBound ==
    /\ \A n \in DOMAIN events : Len(events[n].path) <= configured.m
    /\ \A n \in DOMAIN tstack :
        tstack[n].depth = configured.m => tstack[n].pc = "entry"

\* C5 as claimed: when every attempt of the wait after the click on a Folder
\* row C times out waiting for the row count to drop, crawl_tree does not
\* recurse into C: no frame is entered for C's path and no event is
\* emitted below C's path.
C5_NoDescentAfterTimedOutWait ==
    \A w \in EnterWaits : w.p1fails = MaxRetry =>
        /\ \A n \in DOMAIN tstack : tstack[n].path # w.path
        /\ \A n \in DOMAIN events : ~IsStrictPrefix(w.path, events[n].path)

C10_FailureStaysInLevel == abandoned = {}

\* the crawl_tree frames that exist before and after a step keep or advance
\* their index
IndexNeverDecreases ==
    \A n \in DOMAIN tstack \cap DOMAIN tstack' :
        (tstack[n].pc # "entry" /\ tstack'[n].path = tstack[n].path)
            => tstack'[n].index >= tstack[n].index

\* the step of the except ElementClickInterceptedException clause after the
\* click on a Folder row: the frame leaves the click with an error counted
InterceptedStep ==
    /\ tstack # <<>> /\ Top(tstack).pc = "click"
    /\ errors_count' # errors_count
    /\ phase' = "crawling"

\* C11: when the click that enters a Folder row is intercepted, errors_count
\* grows by exactly 1, no crawl_tree frame is entered for the row, the widget
\* keeps its level, and the frame goes back to its loop with its index
\* already past the row, so the row is neither read nor clicked again by the
\* frame (a frame's index never decreases) and the next row is the one
\* processed next.
C11_InterceptedClickSkipsRow ==
    [][ /\ IndexNeverDecreases
        /\ InterceptedStep =>
            /\ errors_count' = errors_count + 1
            /\ Len(tstack') = Len(tstack)
            /\ tstack'[Len(tstack')].pc = "loop"
            /\ tstack'[Len(tstack')].index = Top(tstack).index
            /\ tstack'[Len(tstack')].rows = Top(tstack).rows
            /\ UNCHANGED <<view, events, waits, warning_count, dirs_found, files_found>>
      ]_vars

\* a Folder row whose click was intercepted (its DIRECTORY line is there, no
\* wait was made for it, one error is counted) was followed by the line of
\* the next row of the same level
C11_Witness ==
    /\ errors_count = 1 /\ abandoned = {} /\ phase = "crawling"
    /\ \E n \in DOMAIN events :
        /\ events[n].kind = "DIRECTORY"
        /\ \A w \in waits : w.path # events[n].path
        /\ n + 1 \in DOMAIN events
        /\ events[n + 1].depth = events[n].depth
        /\ Pop(events[n + 1].path) = Pop(events[n].path)
        /\ events[n + 1].path[Len(events[n + 1].path)]
               = events[n].path[Len(events[n].path)] + 1

\* C12: when a row element is stale, the handler reads the row list again
\* and keeps the frame's index: with the index out of range the frame
\* returns normally (nothing is raised or counted), otherwise the loop goes
\* on at the same index; a frame writes a line only for the row at its
\* index and then moves its index on by one, so it emits no row of its
\* level twice.
C12_StaleKeepsIndex ==
    [][ /\ IndexNeverDecreases
        /\ RowStale =>
            /\ UNCHANGED <<events, dirs_found, files_found, errors_count,
                           warning_count, phase, abandoned, view>>
            /\ IF Top(tstack).index >= Len(get_tree_rows)
               THEN tstack' = Pop(tstack)
               ELSE /\ Len(tstack') = Len(tstack)
                    /\ tstack'[Len(tstack')].pc = "loop"
                    /\ tstack'[Len(tstack')].index = Top(tstack).index
                    /\ tstack'[Len(tstack')].rows = get_tree_rows
        /\ events' # events =>
            /\ Len(tstack') = Len(tstack)
            /\ tstack'[Len(tstack')].index = Top(tstack).index + 1
            /\ events' = Append(events, events'[Len(events')])
            /\ events'[Len(events')].path
                  = Append(Top(tstack).path, Top(tstack).rows[Top(tstack).index + 1].name)
      ]_vars

\* on a well-behaved widget the rows of the root frame went stale while the
\* first Folder was visited, and the frame then wrote the line of its
\* second row
C12_Witness ==
    /\ faults = 0
    /\ \E w \in waits : w.purpose = "exit" /\ w.path = <<1>>
    /\ \E m, n \in DOMAIN events :
        /\ m < n
        /\ events[m].path = <<1>> /\ events[m].kind = "DIRECTORY"
        /\ events[n].path = <<2>>

\* C13: a level that contains a row of fewer than three cells still
\* finishes: once the widget has rendered such a row, the run goes on to its
\* end (the row is skipped and the sibling loop terminates).
C13_LevelWithShortRowFinishes == (short # {}) ~> (phase = "done")

\* without a short row every run of the click-based crawler ends
TreeRunEndsUnlessShortRow == <>(phase = "done" \/ short # {})

----------------------------------------------------------------------------
(* Properties of the programs as a whole.                                  *)

\* the step in which the top-level driver ends a run
DriverEnds == phase \in {"waiting", "crawling", "finishing"} /\ phase' = "done"

\* C14: whatever ends a traversal (its normal return, a failure, or a
\* KeyboardInterrupt raised in wait_for_tree, in a crawl_url or crawl_tree
\* frame of any depth or in a wait), the driver then emits its summary with
\* the counter values reached at that point, and the click-based driver
\* writes the export with every entry search_results held at that point;
\* an interrupt is never counted as an error.
C14_InterruptKeepsResults ==
    [][ DriverEnds =>
          /\ summary'.written
          /\ summary'.dirs = dirs_found
          /\ summary'.files = files_found
          /\ summary'.errors = errors_count
          /\ UNCHANGED <<dirs_found, files_found, errors_count, events, search_results>>
          /\ configured.prog = "tree" =>
                /\ export'.written
                /\ export'.rows = search_results
      ]_vars

\* a click-based run was interrupted below the top level after a file had
\* matched a search word: the export holds the match
C14_Witness ==
    /\ phase = "done" /\ configured.prog = "tree"
    /\ summary.written /\ summary.how = "interrupt"
    /\ export.written /\ Len(export.rows) >= 1
    /\ export.rows = search_results
    /\ \E n \in DOMAIN events : events[n].depth >= 1
    /\ summary.files = files_found /\ files_found >= 1

\* C15: every location fetched and every location of an event has the
\* authority of the root; an anchor of another authority on a fetched page
\* is neither logged nor passed to crawl_url.
C15_NetlocConfined ==
    /\ \A n \in DOMAIN fetched : NetlocOf(fetched[n]) = NetlocOf(Root)
    /\ \A n \in DOMAIN events : NetlocOf(events[n].url) = NetlocOf(Root)
    /\ \A p \in passed : NetlocOf(p.url) = NetlocOf(Root)
    /\ \A u \in visited_urls : NetlocOf(u) = NetlocOf(Root)

\* the root page listed a directory of another authority next to one of its
\* own, and the crawl went through the own one to its end
C15_Witness ==
    /\ phase = "done"
    /\ served[Root].got
    /\ \E n \in DOMAIN served[Root].page :
          served[Root].page[n].netloc # OwnNetloc /\ served[Root].page[n].slash
    /\ \E n \in DOMAIN fetched : fetched[n] = "a"

\* the directories the page fetched at u links to
DirLinks(u) ==
    IF served[u].got
    THEN {extract_links(served[u].page).directories[n].url :
            n \in DOMAIN extract_links(served[u].page).directories}
    ELSE {}

\* the locations a chain of at most k directory links leads to from the root
RECURSIVE ReachWithin(_)
ReachWithin(k) ==
    IF k = 0 THEN {Root}
    ELSE LET near == ReachWithin(k - 1)
         IN  near \cup UNION {DirLinks(u) : u \in near}

\* C18: when no fetch fails, at the end of a run every directory location
\* that a chain of at most max_depth - 1 directory links reaches from the
\* root has been fetched, whatever the hierarchy.
C18_AllWithinDepthFetched ==
    (phase = "done" /\ failed = {} /\ max_depth >= 1)
        => \A u \in ReachWithin(max_depth - 1) : \E n \in DOMAIN fetched : fetched[n] = u

----------------------------------------------------------------------------
(* Properties of search_word.                                              *)

\* the text include_nec_search_word is given for a result
LineOf(r) == r.Directory \o Sym("/") \o r.FileName

\* the identity rule of a word of search_nec_words holds of the line: for
\* NEC an occurrence that line 113 does not exclude, for the other words
\* the expression of their branch
RuleMatches(word, line) ==
    IF word = NEC
    THEN \E p \in Matches(generate_regex(NEC), line) :
            ~Excluded(SubSeq(line, p, p + Len(NEC) - 1))
    ELSE IF IsSubstring(word, Nippon \o Denki)
    THEN GapSearch(generate_regex(Nippon), generate_regex(Denki), line)
    ELSE IF IsSubstring(word, Nippon \o Electric)
    THEN GapSearch(generate_regex(Nippon), generate_regex(Electric), line)
    ELSE IF IsSubstring(word, Nichiden)
    THEN re_search(Literal(Nichiden), line)
    ELSE FALSE

IdentityWords == {search_nec_words[k] : k \in DOMAIN search_nec_words}

InsideExclusion(line, p) ==
    \E n \in DOMAIN exclusion_words :
        LET regex == generate_regex(exclusion_words[n]) IN
        \E q \in Matches(regex, line) : q <= p /\ p + Len(NEC) <= q + Len(regex)

\* C17: an occurrence of NEC that lies wholly inside a match of an exclusion
\* word yields no tag: a result tagged NEC by the identity rule has an
\* occurrence of NEC outside every match of an exclusion word.
C17_ExcludedOccurrenceYieldsNoTag ==
    \A n \in DOMAIN search_results :
        LET r == search_results[n] IN
        ( /\ r.SearchWord = NEC
          /\ \A k \in DOMAIN search_words : search_words[k] # NEC )
            => \E p \in Matches(generate_regex(NEC), LineOf(r)) :
                    ~InsideExclusion(LineOf(r), p)

\* the place of the first occurrence of a configured keyword
FirstIndex(word) ==
    CHOOSE k \in DOMAIN merged_words :
        merged_words[k] = word /\ \A j \in 1..(k - 1) : merged_words[j] # word

RECURSIVE SumCounts(_)
SumCounts(counts) ==
    IF counts = <<>> THEN 0
    ELSE counts[Len(counts)].count + SumCounts(SubSeq(counts, 1, Len(counts) - 1))

\* C20: the keyword-count table written by write_to_xlsx has exactly one row
\* for every configured keyword and no other row, in the order of the
\* keywords in search_nec_words followed by search_words; the count of a row
\* is the number of results whose SearchWord is its keyword (0 when no
\* result carries it), and the counts sum to the number of result rows.
C20_KeywordCountTable ==
    export.written =>
        /\ \A k \in DOMAIN merged_words :
              Cardinality({i \in DOMAIN export.counts :
                              export.counts[i].word = merged_words[k]}) = 1
        /\ \A i \in DOMAIN export.counts :
              /\ \E k \in DOMAIN merged_words : merged_words[k] = export.counts[i].word
              /\ export.counts[i].count =
                    Cardinality({n \in DOMAIN export.rows :
                                    export.rows[n].SearchWord = export.counts[i].word})
              /\ \A j \in DOMAIN export.counts :
                    i < j => FirstIndex(export.counts[i].word) < FirstIndex(export.counts[j].word)
        /\ SumCounts(export.counts) = Len(export.rows)

\* a table was written for a keyword list that names one keyword twice, with
\* a keyword that no result carries and one that two results carry
C20_Witness ==
    /\ export.written /\ configured.prog = "search"
    /\ Len(export.counts) < Len(merged_words)
    /\ \E i \in DOMAIN export.counts : export.counts[i].count = 0
    /\ \E i \in DOMAIN export.counts : export.counts[i].count >= 2

\* C19: in every entry point a root location that does not start with
\* http:// or https:// ends the program at once: no crawler (and so no
\* browser or HTTP session) is built, nothing is fetched or traversed and
\* nothing is exported.
C19_MalformedUrlFailsAtOnce ==
    configured.url # "http" =>
        /\ phase \in {"main", "exited"}
        /\ fetched = <<>> /\ events = <<>>
        /\ errors_count = 0
        /\ ~export.written /\ ~summary.written

----------------------------------------------------------------------------
(* Further properties of the click-based crawler.                          *)

\* the attempts of the wait under way in frame f that observed both phases
Succeeded(f) == (f.wait.a - 1) - f.wait.timeouts

\* C21: wait_for_click_tree stops at the first attempt that observes the row
\* count below prev_tr_count and then above 1: once an attempt of a wait has
\* succeeded the wait is over (no further attempt is started, so no further
\* warning is recorded for it).
C21_WaitStopsAtFirstSuccess ==
    \A n \in DOMAIN tstack :
        (tstack[n].pc \in {"enterwait", "exitwait"} /\ Succeeded(tstack[n]) >= 1)
            => tstack[n].wait.a > MaxRetry

\* C22: wait_for_tree makes at most max_retry attempts and adds one warning
\* for each attempt that fails; crawl_tree is entered only from an attempt
\* that succeeded (True is returned at that attempt, whatever failed
\* before); False is returned only by the max_retry-th failed attempt, and
\* then nothing is crawled while the export and the summary are still
\* written.
C22_WaitForTreeBudget ==
    /\ phase = "waiting" =>
          /\ attempt \in 1..TreeMaxRetry
          /\ warning_count = attempt - 1
          /\ tstack = <<>> /\ events = <<>>
    /\ (phase \in {"finishing", "done"} /\ errors_count = 0 /\ summary.written
            /\ summary.how = "failure") =>
          /\ warning_count = TreeMaxRetry /\ attempt = TreeMaxRetry + 1
          /\ events = <<>> /\ dirs_found = 0 /\ files_found = 0
          /\ export.written
    /\ (phase = "finishing" /\ errors_count = 0) =>
          /\ warning_count = TreeMaxRetry /\ attempt = TreeMaxRetry + 1
          /\ events = <<>> /\ tstack = <<>>
    /\ phase = "crawling" => attempt \in 1..TreeMaxRetry

\* every attempt of wait_for_tree failed: nothing was crawled, and the
\* export and the summary were written
C22_Witness ==
    /\ phase = "done" /\ configured.prog = "tree"
    /\ warning_count = TreeMaxRetry /\ errors_count = 0
    /\ events = <<>>
    /\ export.written /\ summary.written

----------------------------------------------------------------------------
(* Further properties of the link-based crawler.                           *)

\* urlparse(href).path: the href up to its first ? or #
PathComponent(href) ==
    LET marks == {p \in DOMAIN href : href[p] \in {"?", "#"}}
    IN  IF marks = {} THEN href
        ELSE SubSeq(href, 1, (CHOOSE p \in marks : \A r \in marks : p <= r) - 1)

\* C23: extract_links classifies a reference as a directory if and only if
\* the path component of the reference ends with '/', also when a query
\* string or a fragment follows the path: every page answered so far was
\* split that way into the frame's directories and files.
C23_DirectoryIffPathEndsWithSlash ==
    \A u \in Urls : served[u].got =>
        \A n \in DOMAIN served[u].page :
            LET anchor == served[u].page[n]
                links == extract_links(served[u].page)
            IN  (\E k \in DOMAIN links.directories : links.directories[k] = anchor)
                   <=> href_endswith_slash(PathComponent(anchor.href))

----------------------------------------------------------------------------
(* Order of the click-based crawl.                                         *)

\* C24: when every enter and exit transition takes effect (no click is lost
\* or intercepted, no row reference goes stale, and each wait after a click
\* returned with the widget displaying the clicked level), the rows of a level are emitted in row order, and for
\* a Folder row the DIRECTORY event comes first, then every event of its
\* subtree, then the exit click, all before the event of the next row of
\* the level: a row is emitted while the widget displays the row's level.
C24_RowOrderDepthFirst ==
    (faults = 0 /\ \A w \in waits : w.effective) =>
        /\ \A i \in DOMAIN events : events[i].shown = Pop(events[i].path)
        /\ \A i, j \in DOMAIN events : i < j =>
              LET a == events[i].path
                  b == events[j].path
              IN  /\ a # b
                  /\ ~IsStrictPrefix(b, a)
                  /\ Pop(a) = Pop(b) => a[Len(a)] < b[Len(b)]
                  /\ IsStrictPrefix(a, b) =>
                        /\ events[i].kind = "DIRECTORY"
                        /\ \A k \in i..j : IsPrefix(a, events[k].path)

\* the first Folder of the root was entered and left, its file was emitted
\* in between, and the second root row was emitted after the exit
C24_Witness ==
    /\ faults = 0 /\ short = {} /\ phase = "done"
    /\ Len(events) = 3
    /\ events[1].kind = "DIRECTORY" /\ events[1].path = <<1>>
    /\ events[2].path = <<1, 1>>
    /\ events[3].path = <<2>>
    /\ \E w \in waits : w.purpose = "exit" /\ w.path = <<1>>
    /\ \A w \in waits : w.effective


\* a crawl_tree frame is about to read a row list of fewer than MinRows rows
FewRowsAtEntry ==
    /\ phase = "crawling" /\ tstack # <<>>
    /\ Top(tstack).pc = "entry"
    /\ ~DepthLimitHit(Top(tstack).depth)
    /\ Len(get_tree_rows) < MinRows

\* C25: a crawl_tree frame whose row list has fewer than two rows returns
\* normally: its step pops the frame and nothing else, so it emits no event,
\* clicks nothing (the view is as it was) and leaves dirs_found, files_found,
\* warning_count and errors_count unchanged.
C25_FewRowsReturnsQuietly ==
    [][(FewRowsAtEntry /\ tstack' # tstack) =>
          /\ tstack' = Pop(tstack)
          /\ events' = events
          /\ view' = view
          /\ dirs_found' = dirs_found /\ files_found' = files_found
          /\ warning_count' = warning_count /\ errors_count' = errors_count
          /\ abandoned' = abandoned /\ phase' = phase]_vars

\* the empty folder 1 of the root was entered (its level shows the return
\* row alone), its frame returned and the crawl went on to the exit click
C25_Witness ==
    /\ <<1>> \in DOMAIN remote /\ remote[<<1>>] = <<>>
    /\ faults = 0
    /\ \E w \in waits : w.purpose = "exit" /\ w.path = <<1>> /\ w.effective
    /\ \E w \in waits : w.purpose = "enter" /\ w.path = <<1>>
    /\ ~DepthLimitHit(1)
    /\ \A n \in DOMAIN events : ~IsStrictPrefix(<<1>>, events[n].path)
    /\ errors_count = 0


\* a step that handles a level-local recoverable condition: a stale row
\* reference, a row with fewer than MinCells cells, a row list with fewer
\* than MinRows rows, an intercepted click
RecoverableStep ==
    \/ RowStale
    \/ RowShort
    \/ TreeNoRows
    \/ ClickIntercepted
    \/ BackClickIntercepted

\* C26 as claimed: each occurrence of a level-local recoverable condition
\* (stale row reference, row with fewer than three cells, empty or single-row
\* child list, intercepted click) increases warning_count or errors_count by
\* at least 1.
C26_RecoverableConditionCounted ==
    [][RecoverableStep =>
          warning_count' + errors_count' >= warning_count + errors_count + 1]_vars

\* of the recoverable conditions, the intercepted click alone is counted
C26_OnlyInterceptedClickCounted ==
    [][/\ (ClickIntercepted \/ BackClickIntercepted) => errors_count' = errors_count + 1
       /\ (RowStale \/ RowShort \/ TreeNoRows) =>
             (warning_count' = warning_count /\ errors_count' = errors_count)]_vars


\* event e names a node of the remote hierarchy: its parent level has a row
\* of that name and of the event's kind (a level the widget never displayed
\* has no content yet and refutes nothing)
NamesActualNode(e) ==
    LET parent == Pop(e.path)
        name == e.path[Len(e.path)]
    IN  parent \in DOMAIN remote =>
            /\ name \in 1..Len(remote[parent])
            /\ remote[parent][name] = (IF e.kind = "DIRECTORY" THEN "Folder" ELSE "File")

\* C27 as claimed: every DIRECTORY or FILE event carries the path of an
\* actual node of the remote hierarchy, in every run, including the runs in
\* which an enter or exit click does not change the displayed level.
C27_EventsNameActualNodes ==
    \A n \in DOMAIN events : NamesActualNode(events[n])

----------------------------------------------------------------------------
(* Statistics of both crawlers.                                            *)

\* the number of lines of the items log of one kind
CountEvents(kind) == Cardinality({n \in DOMAIN events : events[n].kind = kind})

\* C28: in every crawler, between two operations, dirs_found is the number
\* of DIRECTORY events emitted so far and files_found the number of FILE
\* events, and dirs_found, files_found and errors_count never decrease.
C28_CountersMatchEvents ==
    /\ [](dirs_found = CountEvents("DIRECTORY") /\ files_found = CountEvents("FILE"))
    /\ [][/\ dirs_found' >= dirs_found
          /\ files_found' >= files_found
          /\ errors_count' >= errors_count]_vars

\* a click-based run that emitted a DIRECTORY and a FILE event and counted
\* an error is over
C28_Witness ==
    /\ phase = "done" /\ configured.prog = "tree"
    /\ dirs_found >= 1 /\ files_found >= 1 /\ errors_count >= 1
    /\ CountEvents("DIRECTORY") >= 1 /\ CountEvents("FILE") >= 1

\* a link-based run that emitted a DIRECTORY and a FILE event and counted
\* an error is over
C28_LinkRunCounted ==
    /\ phase = "done" /\ configured.prog = "link"
    /\ dirs_found >= 1 /\ files_found >= 1 /\ errors_count >= 1

----------------------------------------------------------------------------
(* The root level of the click-based crawl.                                *)

\* row n of the root view has its event in the items log
RootRowEmitted(n) ==
    \E k \in DOMAIN events :
        /\ events[k].path = <<n>>
        /\ events[k].kind = (IF remote[<<>>][n] = "Folder" THEN "DIRECTORY" ELSE "FILE")

\* a click-based run came to its end by the return of crawl_tree, and the
\* widget did all it was asked to
UndisturbedTreeRun ==
    /\ phase = "done" /\ configured.prog = "tree"
    /\ summary.written /\ summary.how = "return"
    /\ errors_count = 0 /\ faults = 0 /\ short = {}
    /\ \A w \in waits : w.effective
    /\ <<>> \in DOMAIN remote

\* C29 as claimed: at the root level every Folder row and every File row of
\* the root view yields its DIRECTORY or FILE event, for every root view
\* with at least one row, a root view of exactly one row included.
C29_EveryRootRowEmitted ==
    UndisturbedTreeRun =>
        \A n \in 1..Len(remote[<<>>]) : RootRowEmitted(n)

\* a root view of at least MinRows rows has every row emitted, and a root
\* view of fewer rows has none
C29_RootRowsFromTwoRowsOn ==
    UndisturbedTreeRun =>
        IF Len(remote[<<>>]) >= MinRows
        THEN \A n \in 1..Len(remote[<<>>]) : RootRowEmitted(n)
        ELSE events = <<>>

====
